---- MODULE Spec2Model ----
(***************************************************************************)
(* Food_Share backend: the food-listing lifecycle (create, update, delete, *)
(* claim, complete) and the notification store, as the Express handlers of *)
(* backend/routes/food.js run them against the Mongoose models, and the    *)
(* user channels of the socket.io server of backend/server.js.             *)
(*                                                                         *)
(* Every handler is an async function: it suspends at each `await` and     *)
(* other requests run in between.  A handler is therefore a sequence of    *)
(* steps, one per store operation, and each step is one action.  The code  *)
(* that runs synchronously after an await (checks, early returns, local    *)
(* assignments) depends only on the handler's own locals, so it is part of *)
(* the step of the store operation it follows.                             *)
(***************************************************************************)
EXTENDS Integers, Sequences, FiniteSets, TLC

\* ---------------------------------------------------------------- bounds
NumUsers == 3        \* registered users 1..NumUsers
MaxReq   == 3        \* requests served (create, claim, complete, update, delete)
MaxTime  == 1        \* clock readings 0..MaxTime, in milliseconds
MaxConn  == 2        \* socket.io connections 1..MaxConn

Null    == 0
Users   == 1..NumUsers
FoodIds == 1..MaxReq
Slots   == 1..MaxReq
Times   == 0..MaxTime
Conns   == 1..MaxConn

\* models/Food.js: expiresAt defaults to Date.now() + 24*60*60*1000.
TTL == 86400000

\* ------------------------------------------------------------ data model
\* models/Food.js: status enum
Statuses == {"available", "claimed", "completed"}

\* No document under an id (never created, or deleted): what findById
\* resolves to null for.
NoFood == [id |-> 0, status |-> "none", donor |-> Null, claimedBy |-> Null,
           expiresAt |-> 0]

\* A document as Food.create stores it: schema defaults status = 'available',
\* claimedBy = null, expiresAt = the clock reading now plus 24 hours;
\* donor = req.user._id.
\* Plausible slip: expiresAt defaulting to the clock reading itself.
NewFoodNoTTL(id, caller, now) ==
    [id |-> id, status |-> "available", donor |-> caller, claimedBy |-> Null,
     expiresAt |-> now]

NewFood(id, caller, now) ==
    [id |-> id, status |-> "available", donor |-> caller, claimedBy |-> Null,
     expiresAt |-> now + TTL]

\* A document as Notification.create stores it: read defaults to false.
NewNotification(user, type, food, fromUser) ==
    [user |-> user, type |-> type, food |-> food, fromUser |-> fromUser,
     read |-> FALSE]

\* ------------------------------------------------------- request bodies
\* The body of PUT /food/:id is passed unfiltered to findByIdAndUpdate, so
\* it may name any schema path.  "keep" / Null / -1 mean the path is not in
\* the body.  Each body below sets at most one of status, donor, claimedBy.
KeepAll == [status |-> "keep", donor |-> Null, claimedBy |-> -1]

Patches(users) ==
    {KeepAll}
    \cup {[KeepAll EXCEPT !.status = s] : s \in Statuses \cup {"bogus"}}
    \cup {[KeepAll EXCEPT !.donor = u] : u \in users}
    \cup {[KeepAll EXCEPT !.claimedBy = c] : c \in users \cup {Null}}

\* runValidators: the enum validator of status rejects any other string.
PatchValid(patch) == patch.status \in Statuses \cup {"keep"}

\* findByIdAndUpdate(id, updates): $set of every path the body names.
ApplyPatch(food, patch) ==
    [id        |-> food.id,
     status    |-> IF patch.status = "keep" THEN food.status ELSE patch.status,
     donor     |-> IF patch.donor = Null THEN food.donor ELSE patch.donor,
     claimedBy |-> IF patch.claimedBy = -1 THEN food.claimedBy ELSE patch.claimedBy,
     expiresAt |-> food.expiresAt]

\* ------------------------------------------------------------ responses
\* body is the document a response carries, list the array of a list
\* response, count the unreadCount of GET /notifications, stats the object
\* of GET /users/stats (pending: the counts not yet resolved).
StatFields ==
    {"foodShared", "foodClaimed", "completedDonations", "completedPickups"}

NoStats ==
    [foodShared |-> 0, foodClaimed |-> 0, completedDonations |-> 0,
     completedPickups |-> 0, totalCompleted |-> 0, pending |-> {}]

NoResp ==
    [code |-> 0, msg |-> "", body |-> NoFood, list |-> <<>>, count |-> 0,
     stats |-> NoStats]
Resp(code, msg, body) == [NoResp EXCEPT !.code = code, !.msg = msg, !.body = body]
ListResp(list, count) == [NoResp EXCEPT !.code = 200, !.list = list, !.count = count]
ServerError == Resp(500, "Server error", NoFood)

\* ------------------------------------------------------------- requests
\* A slot is one request: idle (not yet received), in flight at an await,
\* or done (response sent).  food is the handler's local document, patch the
\* update body.  conc is bookkeeping for the properties only: the claim
\* requests on the same listing that were in flight when this one loaded.
Idle == [pc |-> "idle", kind |-> "none", caller |-> Null, id |-> 0,
         food |-> NoFood, patch |-> KeepAll, resp |-> NoResp, conc |-> {}]

InFlight ==
    {"save", "notify", "emit", "respond", "write", "remove", "count", "stats"}

VARIABLES
    foods,      \* Food collection: FoodIds -> document or NoFood
    nextId,     \* the next _id Food.create assigns
    notifs,     \* Notification collection, in creation order
    reqs,       \* Slots -> request
    sockets,    \* Conns -> connection: live or not, the user channels joined,
                \* the events received
    client      \* one browser client: currentUser, socket, the auth modal,
                \* the login and register requests awaiting their response

vars == <<foods, nextId, notifs, reqs, sockets, client>>

\* A connection that is not established (never connected, or disconnected).
\* let currentUser = null; let socket = null; nothing has run yet.
NoClient ==
    [loaded |-> FALSE, currentUser |-> Null, socket |-> 0, modal |-> FALSE,
     pending |-> {}, joining |-> Null]

NoSocket == [live |-> FALSE, user |-> Null, rooms |-> {}, inbox |-> {}]

Init ==
    /\ foods = [i \in FoodIds |-> NoFood]
    /\ nextId = 1
    /\ notifs = <<>>
    /\ reqs = [r \in Slots |-> Idle]
    /\ sockets = [c \in Conns |-> NoSocket]
    /\ client = NoClient

\* A request is received in a free slot; slots are taken in order.
Free(r) ==
    /\ reqs[r].pc = "idle"
    /\ \A q \in Slots : q < r => reqs[q].pc # "idle"

\* The ids a client can name: those Food.create has assigned so far.
Issued == 1..(nextId - 1)

\* The users a request can come from (req.user, set by the protect
\* middleware).  User ids are opaque and no handler compares them except for
\* equality, so the users that no document, notification or request refers
\* to yet are interchangeable: the least of them stands for all.
UsersOf(food) == {food.donor, food.claimedBy}

\* The users the array of a list response refers to.
ListUsers(req) ==
    LET list == req.resp.list
    IN  IF req.kind = "notifications"
        THEN UNION {{list[k].user, list[k].fromUser} : k \in DOMAIN list}
        ELSE UNION {UsersOf(list[k]) : k \in DOMAIN list}

Known ==
    Users \cap
      (UNION {UsersOf(foods[i]) : i \in FoodIds}
       \cup UNION {{notifs[k].user, notifs[k].fromUser} : k \in DOMAIN notifs}
       \cup UNION {{reqs[r].caller, reqs[r].patch.donor, reqs[r].patch.claimedBy}
                   \cup UsersOf(reqs[r].food) \cup UsersOf(reqs[r].resp.body)
                   \cup ListUsers(reqs[r])
                   : r \in Slots})

Callers ==
    Known \cup {u \in Users \ Known : \A v \in Users \ Known : u <= v}

\* Once the response is sent the handler's locals are gone: a done slot
\* holds the response.
Done(r, kind, resp) ==
    [Idle EXCEPT !.pc = "done", !.kind = kind, !.resp = resp,
                 !.conc = reqs[r].conc]

Finish(r, resp) ==
    reqs' = [reqs EXCEPT ![r] = Done(r, reqs[r].kind, resp)]

Goto(r, pc) == reqs' = [reqs EXCEPT ![r].pc = pc]

\* ------------------------------------------------------------ socket.io
\* io.on('connection'): a client connects; it is in no user channel yet.
\* user is the user the connecting client is logged in as (Null: none); the
\* server neither receives nor checks it.
Connect(c, user) ==
    /\ ~sockets[c].live
    /\ sockets' = [sockets EXCEPT ![c] = [NoSocket EXCEPT !.live = TRUE,
                                                          !.user = user]]
    /\ UNCHANGED <<foods, nextId, notifs, reqs, client>>

\* socket.on('join', userId): socket.join(`user_${userId}`).  The user id is
\* whatever the client sends; join adds a room and leaves none.
JoinRoom(rooms, user) == rooms \cup {user}

Join(c, user) ==
    /\ sockets[c].live
    /\ sockets' = [sockets EXCEPT ![c].rooms = JoinRoom(sockets[c].rooms, user)]
    /\ UNCHANGED <<foods, nextId, notifs, reqs, client>>

\* socket.on('disconnect'): socket.io removes the connection from its rooms.
Disconnect(c) ==
    /\ sockets[c].live
    /\ sockets' = [sockets EXCEPT ![c] = NoSocket]
    /\ UNCHANGED <<foods, nextId, notifs, reqs, client>>

\* io.to(`user_${user}`): the connections an event for this user reaches.
\* A plausible slip: io.emit in place of io.to(room).emit, which reaches
\* every connection.
ChannelEveryone(user) == {c \in Conns : sockets[c].live}

Channel(user) == {c \in Conns : user \in sockets[c].rooms}

\* io: every connection there is.
\* A plausible slip: only the connections that have joined some room.
ConnectedJoined == {c \in Conns : sockets[c].rooms # {}}

Connected == {c \in Conns : sockets[c].live}

\* The events the handlers emit: 'notification' with the notification
\* document, 'food_shared' with the created listing.
NotificationEvent(n) ==
    [event |-> "notification", user |-> n.user, type |-> n.type,
     food |-> n.food, fromUser |-> n.fromUser]

FoodSharedEvent(food) ==
    [event |-> "food_shared", user |-> Null, type |-> "food_shared",
     food |-> food.id, fromUser |-> food.donor]

\* emit: the event is handed to the connections addressed, now; nothing is
\* kept for any other.
Emit(to, ev) ==
    [c \in Conns |->
        IF c \in to THEN [sockets[c] EXCEPT !.inbox = @ \cup {ev}]
        ELSE sockets[c]]

\* ------------------------------------------------------ browser client
\* connectSocket(): nothing if no user is logged in or there is a socket;
\* otherwise socket = io(origin).  conn is the connection the new socket
\* becomes at the server once it connects.
ConnectSocket(cl, conn) ==
    IF cl.currentUser = Null \/ cl.socket # 0 THEN cl
    ELSE [cl EXCEPT !.socket = conn]

\* saveAuth(userData): currentUser = userData; connectSocket().
SaveAuth(cl, user, conn) ==
    ConnectSocket([cl EXCEPT !.currentUser = user], conn)

\* DOMContentLoaded: loadAuth() with the user kept in localStorage (Null:
\* none), then the listeners are set up.
LoadAuth(user) ==
    /\ ~client.loaded
    /\ \E c \in Conns :
          /\ ~sockets[c].live
          /\ client' = ConnectSocket([client EXCEPT !.loaded = TRUE,
                                                    !.currentUser = user], c)
    /\ UNCHANGED <<foods, nextId, notifs, reqs, sockets>>

\* openAuthModal is only called when no user is logged in.
OpenAuthModal ==
    /\ client.loaded /\ client.currentUser = Null /\ ~client.modal
    /\ client' = [client EXCEPT !.modal = TRUE]
    /\ UNCHANGED <<foods, nextId, notifs, reqs, sockets>>

\* a click on the overlay
CloseAuthModal ==
    /\ client.modal
    /\ client' = [client EXCEPT !.modal = FALSE]
    /\ UNCHANGED <<foods, nextId, notifs, reqs, sockets>>

\* handleLogin / handleRegister up to await apiFetch: the form of the open
\* modal is submitted with the credentials of some user.
SubmitAuth(user) ==
    /\ client.modal
    /\ user \notin client.pending
    /\ client' = [client EXCEPT !.pending = @ \cup {user}]
    /\ UNCHANGED <<foods, nextId, notifs, reqs, sockets>>

\* apiFetch resolves: saveAuth(data); closeAuthModal().
AuthResponse(user) ==
    /\ user \in client.pending
    /\ \E c \in Conns :
          /\ ~sockets[c].live
          /\ client' = [SaveAuth([client EXCEPT !.pending = @ \ {user}], user, c)
                           EXCEPT !.modal = FALSE]
    /\ UNCHANGED <<foods, nextId, notifs, reqs, sockets>>

\* apiFetch throws (wrong password, email taken): the error is shown.
AuthRejected(user) ==
    /\ user \in client.pending
    /\ client' = [client EXCEPT !.pending = @ \ {user}]
    /\ UNCHANGED <<foods, nextId, notifs, reqs, sockets>>

\* logout(): currentUser = null; if (socket) { socket.disconnect(); socket = null }
Logout ==
    /\ client.loaded /\ client.currentUser # Null
    /\ client' = [client EXCEPT !.currentUser = Null, !.socket = 0,
                                !.joining = Null]
    /\ sockets' = IF client.socket # 0
                  THEN [sockets EXCEPT ![client.socket] = NoSocket]
                  ELSE sockets
    /\ UNCHANGED <<foods, nextId, notifs, reqs>>

\* The socket connects, or connects again after a loss of the connection:
\* socket.on('connect') emits join with currentUser._id as it is then.
SocketConnect ==
    /\ client.socket # 0
    /\ ~sockets[client.socket].live
    /\ sockets' = [sockets EXCEPT ![client.socket] =
            [NoSocket EXCEPT !.live = TRUE, !.user = client.currentUser]]
    /\ client' = [client EXCEPT !.joining = client.currentUser]
    /\ UNCHANGED <<foods, nextId, notifs, reqs>>

\* The server's 'join' listener runs for the id the client emitted.
SocketJoin ==
    /\ client.socket # 0
    /\ client.joining # Null
    /\ sockets' = [sockets EXCEPT ![client.socket].rooms =
                       JoinRoom(@, client.joining)]
    /\ client' = [client EXCEPT !.joining = Null]
    /\ UNCHANGED <<foods, nextId, notifs, reqs>>

\* The connection is lost, with whatever was on its way; the socket object
\* stays and will reconnect.
SocketDrop ==
    /\ client.socket # 0
    /\ sockets[client.socket].live
    /\ sockets' = [sockets EXCEPT ![client.socket] = NoSocket]
    /\ client' = [client EXCEPT !.joining = Null]
    /\ UNCHANGED <<foods, nextId, notifs, reqs>>

\* --------------------------------------------------------- POST /food
\* Validation of name and address, Food.create, 201 with the document.  A
\* body without name or address is answered 400 and stores nothing.
CreateCheck(hasName, hasAddress) ==
    IF ~hasName \/ ~hasAddress
    THEN Resp(400, "Please provide food name and address", NoFood)
    ELSE NoResp

CreateFood(r, caller, hasName, hasAddress, now) ==
    /\ Free(r)
    /\ LET resp == CreateCheck(hasName, hasAddress)
           food == NewFood(nextId, caller, now)
       IN  IF resp # NoResp
           THEN /\ reqs' = [reqs EXCEPT ![r] = Done(r, "create", resp)]
                /\ UNCHANGED <<foods, nextId>>
                /\ UNCHANGED sockets
           ELSE /\ foods' = [foods EXCEPT ![nextId] = food]
                /\ nextId' = nextId + 1
                /\ sockets' = Emit(Connected, FoodSharedEvent(food))
                /\ reqs' = [reqs EXCEPT ![r] =
                        Done(r, "create", Resp(201, "", food))]
    /\ UNCHANGED <<notifs, client>>

\* ------------------------------------------------- POST /food/:id/claim
\* The checks that follow findById, in the order of the code.
\* Plausible slips in the checks: the own-listing check left out; the status
\* check left out.
ClaimCheckNoOwn(food, caller) ==
    IF food = NoFood THEN Resp(404, "Food listing not found", NoFood)
    ELSE IF food.status # "available"
         THEN Resp(400, "This food has already been claimed", NoFood)
    ELSE NoResp

ClaimCheckNoStatus(food, caller) ==
    IF food = NoFood THEN Resp(404, "Food listing not found", NoFood)
    ELSE IF food.donor = caller
         THEN Resp(400, "You cannot claim your own food", NoFood)
    ELSE NoResp

ClaimCheck(food, caller) ==
    IF food = NoFood THEN Resp(404, "Food listing not found", NoFood)
    ELSE IF food.status # "available"
         THEN Resp(400, "This food has already been claimed", NoFood)
    ELSE IF food.donor = caller
         THEN Resp(400, "You cannot claim your own food", NoFood)
    ELSE NoResp

\* food.status = 'claimed'; food.claimedBy = req.user._id (on the local document)
ClaimAssign(food, caller) ==
    [food EXCEPT !.status = "claimed", !.claimedBy = caller]

\* food.save() after ClaimAssign: an update of the stored document by _id
\* that sets the two modified paths, whatever the stored document holds by now.
ClaimWrite(stored, doc) ==
    [stored EXCEPT !.status = doc.status, !.claimedBy = doc.claimedBy]

\* findById, the three checks, the local assignment; suspends in save().
ClaimLoad(r, caller, id) ==
    /\ Free(r)
    /\ LET food == foods[id]
           resp == ClaimCheck(food, caller)
       IN  IF resp # NoResp
           THEN reqs' = [reqs EXCEPT ![r] = Done(r, "claim", resp)]
           ELSE reqs' = [reqs EXCEPT ![r] =
                    [pc |-> "save", kind |-> "claim", caller |-> caller,
                     id |-> id, food |-> ClaimAssign(food, caller),
                     patch |-> KeepAll, resp |-> NoResp,
                     conc |-> {q \in Slots : /\ reqs[q].pc \in InFlight
                                             /\ reqs[q].kind = "claim"
                                             /\ reqs[q].id = id}]]
    /\ UNCHANGED <<foods, nextId, notifs, sockets, client>>

\* save() resolves: the update is applied; a document deleted in the meantime
\* matches nothing and save() rejects (DocumentNotFoundError -> catch -> 500).
\* Plausible slip: the whole local document written back (an upsert), which
\* stores a deleted listing again.
ClaimSaveUpsert(r) ==
    /\ reqs[r].kind = "claim" /\ reqs[r].pc = "save"
    /\ foods' = [foods EXCEPT ![reqs[r].id] = reqs[r].food]
    /\ Goto(r, "notify")
    /\ UNCHANGED <<nextId, notifs, sockets, client>>

ClaimSave(r) ==
    /\ reqs[r].kind = "claim" /\ reqs[r].pc = "save"
    /\ IF foods[reqs[r].id] = NoFood
       THEN /\ Finish(r, ServerError)
            /\ UNCHANGED foods
       ELSE /\ foods' = [foods EXCEPT ![reqs[r].id] = ClaimWrite(@, reqs[r].food)]
            /\ Goto(r, "notify")
    /\ UNCHANGED <<nextId, notifs, sockets, client>>

\* Notification.create for the donor the handler loaded.
\* A plausible slip: the notification addressed to the caller, not the donor.
ClaimNotificationToCaller(req) ==
    NewNotification(req.caller, "claim_request", req.id, req.caller)

ClaimNotification(req) ==
    NewNotification(req.food.donor, "claim_request", req.id, req.caller)

\* A plausible slip: the push issued without the notification being stored.
ClaimNotifyUnstored(r) ==
    /\ reqs[r].kind = "claim" /\ reqs[r].pc = "notify"
    /\ Goto(r, "emit")
    /\ UNCHANGED <<foods, nextId, notifs, sockets, client>>

ClaimNotify(r) ==
    /\ reqs[r].kind = "claim" /\ reqs[r].pc = "notify"
    /\ notifs' = Append(notifs, ClaimNotification(reqs[r]))
    /\ Goto(r, "emit")
    /\ UNCHANGED <<foods, nextId, sockets, client>>

\* notification.populate(...) resolves, io.to(`user_<donor>`).emit(...),
\* suspends in food.populate(...).
ClaimEmit(r) ==
    /\ reqs[r].kind = "claim" /\ reqs[r].pc = "emit"
    /\ sockets' = Emit(Channel(reqs[r].food.donor),
                       NotificationEvent(ClaimNotification(reqs[r])))
    /\ Goto(r, "respond")
    /\ UNCHANGED <<foods, nextId, notifs, client>>

\* food.populate('claimedBy') resolves, res.json(populated): the local document.
ClaimRespond(r) ==
    /\ reqs[r].kind = "claim" /\ reqs[r].pc = "respond"
    /\ Finish(r, Resp(200, "", reqs[r].food))
    /\ UNCHANGED <<foods, nextId, notifs, sockets, client>>

\* ----------------------------------------------- PUT /food/:id/complete
\* Plausible slips in the checks: the status check left out; the donor check
\* left out.
CompleteCheckNoStatus(food, caller) ==
    IF food = NoFood THEN Resp(404, "Food listing not found", NoFood)
    ELSE IF food.donor # caller
         THEN Resp(403, "Only the donor can mark as completed", NoFood)
    ELSE NoResp

CompleteCheckNoDonor(food, caller) ==
    IF food = NoFood THEN Resp(404, "Food listing not found", NoFood)
    ELSE IF food.status # "claimed"
         THEN Resp(400, "Food must be claimed before completing", NoFood)
    ELSE NoResp

CompleteCheck(food, caller) ==
    IF food = NoFood THEN Resp(404, "Food listing not found", NoFood)
    ELSE IF food.donor # caller
         THEN Resp(403, "Only the donor can mark as completed", NoFood)
    ELSE IF food.status # "claimed"
         THEN Resp(400, "Food must be claimed before completing", NoFood)
    ELSE NoResp

\* food.status = 'completed' (on the local document)
CompleteAssign(food) == [food EXCEPT !.status = "completed"]

\* food.save() after CompleteAssign: sets the one modified path.
CompleteWrite(stored, doc) == [stored EXCEPT !.status = doc.status]

CompleteLoad(r, caller, id) ==
    /\ Free(r)
    /\ LET food == foods[id]
           resp == CompleteCheck(food, caller)
       IN  IF resp # NoResp
           THEN reqs' = [reqs EXCEPT ![r] = Done(r, "complete", resp)]
           ELSE reqs' = [reqs EXCEPT ![r] =
                    [pc |-> "save", kind |-> "complete", caller |-> caller,
                     id |-> id, food |-> CompleteAssign(food),
                     patch |-> KeepAll, resp |-> NoResp, conc |-> {}]]
    /\ UNCHANGED <<foods, nextId, notifs, sockets, client>>

\* save() resolves; if (food.claimedBy) the handler goes on to notify the
\* claimer, otherwise it answers at once.
CompleteSave(r) ==
    /\ reqs[r].kind = "complete" /\ reqs[r].pc = "save"
    /\ IF foods[reqs[r].id] = NoFood
       THEN /\ Finish(r, ServerError)
            /\ UNCHANGED foods
       ELSE /\ foods' = [foods EXCEPT ![reqs[r].id] = CompleteWrite(@, reqs[r].food)]
            /\ IF reqs[r].food.claimedBy # Null
               THEN Goto(r, "notify")
               ELSE Finish(r, Resp(200, "", reqs[r].food))
    /\ UNCHANGED <<nextId, notifs, sockets, client>>

CompleteNotification(req) ==
    NewNotification(req.food.claimedBy, "food_completed", req.id, req.caller)

\* Notification.create resolves; the emit and res.json(food) follow it
\* without a further await.
CompleteNotify(r) ==
    /\ reqs[r].kind = "complete" /\ reqs[r].pc = "notify"
    /\ notifs' = Append(notifs, CompleteNotification(reqs[r]))
    /\ sockets' = Emit(Channel(reqs[r].food.claimedBy),
                       NotificationEvent(CompleteNotification(reqs[r])))
    /\ Finish(r, Resp(200, "", reqs[r].food))
    /\ UNCHANGED <<foods, nextId, client>>

\* ------------------------------------------------------- PUT /food/:id
\* Plausible slip: the ownership check left out.
UpdateCheckNoDonor(food, caller) ==
    IF food = NoFood THEN Resp(404, "Food listing not found", NoFood)
    ELSE NoResp

UpdateCheck(food, caller) ==
    IF food = NoFood THEN Resp(404, "Food listing not found", NoFood)
    ELSE IF food.donor # caller
         THEN Resp(403, "Not authorized to update this listing", NoFood)
    ELSE NoResp

UpdateLoad(r, caller, id, patch) ==
    /\ Free(r)
    /\ LET food == foods[id]
           resp == UpdateCheck(food, caller)
       IN  IF resp # NoResp
           THEN reqs' = [reqs EXCEPT ![r] = Done(r, "update", resp)]
           ELSE reqs' = [reqs EXCEPT ![r] =
                    [pc |-> "write", kind |-> "update", caller |-> caller,
                     id |-> id, food |-> food, patch |-> patch,
                     resp |-> NoResp, conc |-> {}]]
    /\ UNCHANGED <<foods, nextId, notifs, sockets, client>>

\* findByIdAndUpdate(id, updates, {new: true, runValidators: true}) resolves:
\* a body that fails validation rejects (500); a document deleted in the
\* meantime gives null, answered 200; otherwise the updated document.
UpdateWrite(r) ==
    /\ reqs[r].kind = "update" /\ reqs[r].pc = "write"
    /\ LET id == reqs[r].id
           patch == reqs[r].patch
       IN  IF ~PatchValid(patch)
           THEN /\ Finish(r, ServerError)
                /\ UNCHANGED foods
           ELSE IF foods[id] = NoFood
           THEN /\ Finish(r, Resp(200, "", NoFood))
                /\ UNCHANGED foods
           ELSE /\ foods' = [foods EXCEPT ![id] = ApplyPatch(@, patch)]
                /\ Finish(r, Resp(200, "", ApplyPatch(foods[id], patch)))
    /\ UNCHANGED <<nextId, notifs, sockets, client>>

\* ---------------------------------------------------- DELETE /food/:id
DeleteCheck(food, caller) ==
    IF food = NoFood THEN Resp(404, "Food listing not found", NoFood)
    ELSE IF food.donor # caller
         THEN Resp(403, "Not authorized to delete this listing", NoFood)
    ELSE NoResp

DeleteLoad(r, caller, id) ==
    /\ Free(r)
    /\ LET food == foods[id]
           resp == DeleteCheck(food, caller)
       IN  IF resp # NoResp
           THEN reqs' = [reqs EXCEPT ![r] = Done(r, "delete", resp)]
           ELSE reqs' = [reqs EXCEPT ![r] =
                    [pc |-> "remove", kind |-> "delete", caller |-> caller,
                     id |-> id, food |-> food, patch |-> KeepAll,
                     resp |-> NoResp, conc |-> {}]]
    /\ UNCHANGED <<foods, nextId, notifs, sockets, client>>

\* food.deleteOne() resolves (deleting by _id; nothing to delete is no error).
DeleteWrite(r) ==
    /\ reqs[r].kind = "delete" /\ reqs[r].pc = "remove"
    /\ foods' = [foods EXCEPT ![reqs[r].id] = NoFood]
    /\ Finish(r, Resp(200, "Food listing removed", NoFood))
    /\ UNCHANGED <<nextId, notifs, sockets, client>>

\* ------------------------------------------ PUT /notifications/read-all
\* Notification.updateMany({user, read: false}, {read: true}).  A call that
\* matches no notification changes nothing and is a stuttering step.
\* Plausible slip: the filter on the user left out.
MarkReadAnyone(n, user) == [n EXCEPT !.read = TRUE]

\* Plausible slip: read flipped instead of set.
MarkReadToggle(n, user) ==
    IF n.user = user THEN [n EXCEPT !.read = ~n.read] ELSE n

MarkRead(n, user) == IF n.user = user THEN [n EXCEPT !.read = TRUE] ELSE n

MarkAll(user) == [i \in DOMAIN notifs |-> MarkRead(notifs[i], user)]

MarkAllRead(user) ==
    /\ notifs' = MarkAll(user)
    /\ notifs' # notifs
    /\ UNCHANGED <<foods, nextId, reqs, sockets, client>>

\* ------------------------------------------------------------ GET /food
\* Food.find({status: 'available'}).sort({createdAt: -1}): one query.
\* Documents are created in id order, so newest first is highest id first.
NewestFirst == [k \in 1..MaxReq |-> foods[MaxReq + 1 - k]]

\* Plausible slip: the filter of GET /food/all, every stored document.
HasAnyStatus(food) == food.status \in Statuses

HasStatus(food) == food.status = "available"

FindAvailable == SelectSeq(NewestFirst, HasStatus)

GetFoods(r) ==
    /\ Free(r)
    /\ reqs' = [reqs EXCEPT ![r] = Done(r, "list", ListResp(FindAvailable, 0))]
    /\ UNCHANGED <<foods, nextId, notifs, sockets, client>>

\* -------------------------------------------------------- GET /food/:id
\* Food.findById: 404 if there is no document, else 200 with the document.
GetCheck(food) ==
    IF food = NoFood THEN Resp(404, "Food listing not found", NoFood)
    ELSE Resp(200, "", food)

GetFood(r, id) ==
    /\ Free(r)
    /\ reqs' = [reqs EXCEPT ![r] = Done(r, "get", GetCheck(foods[id]))]
    /\ UNCHANGED <<foods, nextId, notifs, sockets, client>>

\* --------------------------------------------------- GET /notifications
\* Two queries: Notification.find({user}) newest first, at most PageSize,
\* with food populated (null when the listing is gone); then
\* countDocuments({user, read: false}).  Other requests run in between.
PageSize == 50

Populate(n) == IF foods[n.food] = NoFood THEN [n EXCEPT !.food = Null] ELSE n

RECURSIVE FindFor(_, _)
FindFor(user, k) ==
    IF k = 0 THEN <<>>
    ELSE IF notifs[k].user = user
         THEN <<Populate(notifs[k])>> \o FindFor(user, k - 1)
         ELSE FindFor(user, k - 1)

Page(list) ==
    IF Len(list) <= PageSize THEN list ELSE SubSeq(list, 1, PageSize)

UnreadCount(user) ==
    Cardinality({k \in DOMAIN notifs : notifs[k].user = user /\ ~notifs[k].read})

NotificationsFind(r, caller) ==
    /\ Free(r)
    /\ reqs' = [reqs EXCEPT ![r] =
            [Idle EXCEPT !.pc = "count", !.kind = "notifications",
                         !.caller = caller,
                         !.resp = ListResp(Page(FindFor(caller, Len(notifs))), 0)]]
    /\ UNCHANGED <<foods, nextId, notifs, sockets, client>>

NotificationsCount(r) ==
    /\ reqs[r].pc = "count"
    /\ Finish(r, ListResp(reqs[r].resp.list, UnreadCount(reqs[r].caller)))
    /\ UNCHANGED <<foods, nextId, notifs, sockets, client>>

\* ------------------------------------------------------ GET /users/stats
\* Promise.all of four Food.countDocuments: each query runs at the store at
\* its own moment, in any order; the response is built when all four have
\* resolved.
Matches(field, food, user) ==
    CASE field = "foodShared" -> food.donor = user
      [] field = "foodClaimed" -> food.claimedBy = user
      [] field = "completedDonations" ->
             food.donor = user /\ food.status = "completed"
      [] field = "completedPickups" ->
             food.claimedBy = user /\ food.status = "completed"

CountDocuments(field, user) ==
    Cardinality({i \in FoodIds : foods[i] # NoFood /\ Matches(field, foods[i], user)})

StatsStart(r, caller) ==
    /\ Free(r)
    /\ reqs' = [reqs EXCEPT ![r] =
            [Idle EXCEPT !.pc = "stats", !.kind = "stats", !.caller = caller,
                         !.resp = [NoResp EXCEPT !.stats.pending = StatFields]]]
    /\ UNCHANGED <<foods, nextId, notifs, sockets, client>>

StatsCount(r, field) ==
    /\ reqs[r].pc = "stats"
    /\ field \in reqs[r].resp.stats.pending
    /\ reqs' = [reqs EXCEPT ![r].resp.stats =
            [@ EXCEPT ![field] = CountDocuments(field, reqs[r].caller),
                      !.pending = @ \ {field}]]
    /\ UNCHANGED <<foods, nextId, notifs, sockets, client>>

\* res.json({..., totalCompleted: completedAsDonor + completedAsClaimer})
StatsResponse(stats) ==
    [NoResp EXCEPT !.code = 200,
        !.stats = [stats EXCEPT !.totalCompleted =
                       stats.completedDonations + stats.completedPickups]]

StatsRespond(r) ==
    /\ reqs[r].pc = "stats"
    /\ reqs[r].resp.stats.pending = {}
    /\ Finish(r, StatsResponse(reqs[r].resp.stats))
    /\ UNCHANGED <<foods, nextId, notifs, sockets, client>>

\* ------------------------------------------------------- store failure
\* Any awaited store operation may reject instead of resolving: the
\* operation has no effect and the handler's catch block answers 500.
Kinds == {"create", "claim", "complete", "update", "delete"}

\* the first store operation of a handler rejects
LoadError(r, kind) ==
    /\ Free(r)
    /\ reqs' = [reqs EXCEPT ![r] = Done(r, kind, ServerError)]
    /\ UNCHANGED <<foods, nextId, notifs, sockets, client>>

\* the store operation a handler is suspended in rejects
StoreError(r) ==
    /\ reqs[r].pc \in InFlight
    /\ Finish(r, ServerError)
    /\ UNCHANGED <<foods, nextId, notifs, sockets, client>>

\* POST /food: Food.create has stored the listing and food.populate, awaited
\* before the emit, rejects: 500, no event.
PopulateError(r, caller, now) ==
    /\ Free(r)
    /\ foods' = [foods EXCEPT ![nextId] = NewFood(nextId, caller, now)]
    /\ nextId' = nextId + 1
    /\ reqs' = [reqs EXCEPT ![r] = Done(r, "create", ServerError)]
    /\ UNCHANGED <<notifs, sockets, client>>

\* ----------------------------------------------------------------- Next
\* A request is received: its handler runs up to its first response or await.
PostFood ==
    \E r \in Slots : Free(r) /\
        \E u \in Callers, n \in BOOLEAN, a \in BOOLEAN : CreateFood(r, u, n, a, 0)

PostFoodFails ==
    \E r \in Slots : Free(r) /\ \E u \in Callers : PopulateError(r, u, 0)

PostClaim ==
    \E r \in Slots : Free(r) /\
        \E u \in Callers, i \in Issued : ClaimLoad(r, u, i)

PutComplete ==
    \E r \in Slots : Free(r) /\
        \E u \in Callers, i \in Issued : CompleteLoad(r, u, i)

PutFood ==
    \E r \in Slots : Free(r) /\
        \E u \in Callers, i \in Issued, p \in Patches(Callers) :
            UpdateLoad(r, u, i, p)

DeleteFood ==
    \E r \in Slots : Free(r) /\
        \E u \in Callers, i \in Issued : DeleteLoad(r, u, i)

PutReadAll == \E u \in Callers : MarkAllRead(u)

Next ==
    \/ PostFood
    \/ PostClaim
    \/ \E r \in Slots : ClaimSave(r)
    \/ \E r \in Slots : ClaimNotify(r)
    \/ \E r \in Slots : ClaimEmit(r)
    \/ \E r \in Slots : ClaimRespond(r)
    \/ PutComplete
    \/ \E r \in Slots : CompleteSave(r)
    \/ \E r \in Slots : CompleteNotify(r)
    \/ PutFood
    \/ \E r \in Slots : UpdateWrite(r)
    \/ DeleteFood
    \/ \E r \in Slots : DeleteWrite(r)
    \/ PutReadAll
    \/ \E r \in Slots, k \in Kinds : LoadError(r, k)
    \/ \E r \in Slots : StoreError(r)

Spec == Init /\ [][Next]_vars

\* The same handlers, from the store as it is once user 1 has created
\* listing 1 and user 2 has claimed it; the claim is the first request of
\* the window and has been answered.
InitClaimed ==
    /\ foods = [i \in FoodIds |->
                  IF i = 1 THEN ClaimAssign(NewFood(1, 1, 0), 2) ELSE NoFood]
    /\ nextId = 2
    /\ notifs = <<NewNotification(1, "claim_request", 1, 2)>>
    /\ reqs = [r \in Slots |->
                 IF r = 1
                 THEN [Idle EXCEPT !.pc = "done", !.kind = "claim",
                          !.resp = Resp(200, "", ClaimAssign(NewFood(1, 1, 0), 2))]
                 ELSE Idle]
    /\ sockets = [c \in Conns |-> NoSocket]
    /\ client = NoClient

SpecClaimed == InitClaimed /\ [][Next]_vars

\* The same handlers together with the read-only ones.
ReadKinds == {"list", "get", "notifications"}

GetFoodList == \E r \in Slots : GetFoods(r)

GetFoodById == \E r \in Slots : Free(r) /\ \E i \in Issued : GetFood(r, i)

GetNotifications ==
    \E r \in Slots : Free(r) /\ \E u \in Callers : NotificationsFind(r, u)

NextRead ==
    \/ Next
    \/ GetFoodList
    \/ GetFoodById
    \/ GetNotifications
    \/ \E r \in Slots : NotificationsCount(r)
    \/ \E r \in Slots, k \in ReadKinds : LoadError(r, k)

SpecRead == Init /\ [][NextRead]_vars

\* Listings created at any clock reading, and read back.
PostFoodAt ==
    \E r \in Slots : Free(r) /\
        \E u \in Callers, n \in BOOLEAN, a \in BOOLEAN, now \in Times :
            CreateFood(r, u, n, a, now)

NextTime ==
    \/ PostFoodAt
    \/ GetFoodById

SpecTime == Init /\ [][NextTime]_vars

\* The handlers that emit (create, claim, complete; a create whose populate
\* answers 500) together with the socket.io server.  Who opened a connection
\* plays no part in what it is sent, so the connections here are opened
\* anonymously.  A room of a user the store does not refer to yet is sent
\* nothing, and joining it commutes with every other step until the user's
\* first request arrives: joins are taken for the known users.
ConnectNext ==
    \E c \in Conns : ~sockets[c].live /\
        (\A d \in Conns : d < c => sockets[d].live) /\
        Connect(c, Null)

JoinNext == \E c \in Conns : sockets[c].live /\ \E u \in Known : Join(c, u)

DisconnectNext == \E c \in Conns : Disconnect(c)

NextPush ==
    \/ PostFood
    \/ PostFoodFails
    \/ PostClaim
    \/ \E r \in Slots : ClaimSave(r)
    \/ \E r \in Slots : ClaimNotify(r)
    \/ \E r \in Slots : ClaimEmit(r)
    \/ \E r \in Slots : ClaimRespond(r)
    \/ PutComplete
    \/ \E r \in Slots : CompleteSave(r)
    \/ \E r \in Slots : CompleteNotify(r)
    \/ ConnectNext
    \/ JoinNext
    \/ DisconnectNext

SpecPush == Init /\ [][NextPush]_vars

\* The complete handler, on the claimed listing, and the socket.io server,
\* with the user logged in at the client that opens each connection.  The
\* server asks for no credential on connection and takes the user id of
\* 'join' as sent.
ConnectAs ==
    \E c \in Conns : ~sockets[c].live /\
        (\A d \in Conns : d < c => sockets[d].live) /\
        \E u \in Callers \cup {Null} : Connect(c, u)

NextOwned ==
    \/ PutComplete
    \/ \E r \in Slots : CompleteSave(r)
    \/ \E r \in Slots : CompleteNotify(r)
    \/ ConnectAs
    \/ JoinNext
    \/ DisconnectNext

SpecOwned == InitClaimed /\ [][NextOwned]_vars

\* GET /users/stats together with the handlers that change what it counts,
\* from the store as it is once user 1 has created listing 1 (a request
\* answered before the window of requests followed here).
InitShared ==
    /\ foods = [i \in FoodIds |-> IF i = 1 THEN NewFood(1, 1, 0) ELSE NoFood]
    /\ nextId = 2
    /\ notifs = <<>>
    /\ reqs = [r \in Slots |-> Idle]
    /\ sockets = [c \in Conns |-> NoSocket]
    /\ client = NoClient

GetStats == \E r \in Slots : Free(r) /\ \E u \in Callers : StatsStart(r, u)

NextStats ==
    \/ PostClaim
    \/ \E r \in Slots : ClaimSave(r)
    \/ \E r \in Slots : ClaimNotify(r)
    \/ \E r \in Slots : ClaimEmit(r)
    \/ \E r \in Slots : ClaimRespond(r)
    \/ PutComplete
    \/ \E r \in Slots : CompleteSave(r)
    \/ \E r \in Slots : CompleteNotify(r)
    \/ DeleteFood
    \/ \E r \in Slots : DeleteWrite(r)
    \/ GetStats
    \/ \E r \in Slots, f \in StatFields : StatsCount(r, f)
    \/ \E r \in Slots : StatsRespond(r)

SpecStats == InitShared /\ [][NextStats]_vars

\* One browser client and its connection to the socket.io server.
NextClient ==
    \/ \E u \in Users \cup {Null} : LoadAuth(u)
    \/ OpenAuthModal
    \/ CloseAuthModal
    \/ \E u \in Users : SubmitAuth(u)
    \/ \E u \in Users : AuthResponse(u)
    \/ \E u \in Users : AuthRejected(u)
    \/ Logout
    \/ SocketConnect
    \/ SocketJoin
    \/ SocketDrop

SpecClient == Init /\ [][NextClient]_vars

\* The socket.io server alone: connections come, join and go.
NextSocket ==
    \/ \E c \in Conns, u \in Users \cup {Null} : Connect(c, u)
    \/ \E c \in Conns, u \in Users : Join(c, u)
    \/ \E c \in Conns : Disconnect(c)

SpecSocket == Init /\ [][NextSocket]_vars

\* ================================================================ claims
Exists(i) == foods[i] # NoFood

\* Request r's response is sent in this step.
Responds(r) == reqs[r].pc # "done" /\ reqs'[r].pc = "done"

ClaimSucceeded(r) ==
    reqs[r].pc = "done" /\ reqs[r].kind = "claim" /\ reqs[r].resp.code = 200

\* C1: two claim requests by different users that run concurrently on the
\* same listing (the second loads while the first is in flight) never both
\* get a success response.
C1_NoDoubleClaim ==
    \A r, q \in Slots :
        (ClaimSucceeded(r) /\ ClaimSucceeded(q) /\ q \in reqs[r].conc)
            => reqs[r].resp.body.claimedBy = reqs[q].resp.body.claimedBy

\* C2: every stored listing has claimedBy non-null iff its status is
\* claimed or completed.
C2_ClaimerIffClaimed ==
    \A i \in FoodIds :
        Exists(i) => (foods[i].claimedBy # Null
                        <=> foods[i].status \in {"claimed", "completed"})

\* C3: the status of a stored listing changes only available -> claimed or
\* claimed -> completed.
C3_StatusForwardOnly ==
    [][\A i \in FoodIds :
          (Exists(i) /\ foods'[i] # NoFood /\ foods'[i].status # foods[i].status)
              => <<foods[i].status, foods'[i].status>>
                    \in {<<"available", "claimed">>, <<"claimed", "completed">>}]_vars

\* C4: no stored listing has claimedBy equal to its donor.
C4_ClaimerNotDonor ==
    \A i \in FoodIds : Exists(i) => foods[i].claimedBy # foods[i].donor

\* C5: a listing's donor is the caller that created it and never changes
\* while the listing exists.
C5_DonorImmutable ==
    [][/\ \A r \in Slots, u \in Users :
            (CreateFood(r, u, TRUE, TRUE, 0)) => foods'[nextId].donor = u
       /\ \A i \in FoodIds :
            (Exists(i) /\ foods'[i] # NoFood) => foods'[i].donor = foods[i].donor]_vars

\* A request of this kind is received in slot r in this step.
Received(r, kind) == reqs[r].pc = "idle" /\ reqs'[r].kind = kind

\* C6: a claim request by the listing's donor is answered 400 (with the
\* own-listing message when the listing is available), changes no listing
\* and creates no notification.
C6_OwnClaimRejected ==
    [][\A r \in Slots : Received(r, "claim") =>
        \A u \in Users, i \in FoodIds :
          (ClaimLoad(r, u, i) /\ Exists(i) /\ foods[i].donor = u)
              => /\ reqs'[r].pc = "done"
                 /\ reqs'[r].resp.code = 400
                 /\ foods[i].status = "available"
                        => reqs'[r].resp.msg = "You cannot claim your own food"
                 /\ foods' = foods
                 /\ notifs' = notifs]_vars

C6_Witness ==
    \E r \in Slots :
        /\ reqs[r].pc = "done" /\ reqs[r].kind = "claim"
        /\ reqs[r].resp = Resp(400, "You cannot claim your own food", NoFood)

\* C7: a claim request served while the listing is claimed or completed is
\* answered 400 'already claimed', changes no listing (the claimer stays) and
\* creates no notification; on an absent listing it is answered 404.
C7_ClaimedRejected ==
    [][\A r \in Slots : Received(r, "claim") =>
        \A u \in Users, i \in FoodIds : ClaimLoad(r, u, i) =>
          /\ foods[i].status \in {"claimed", "completed"}
                => /\ reqs'[r].pc = "done"
                   /\ reqs'[r].resp =
                        Resp(400, "This food has already been claimed", NoFood)
                   /\ foods' = foods
                   /\ notifs' = notifs
          /\ ~Exists(i)
                => /\ reqs'[r].pc = "done"
                   /\ reqs'[r].resp.code = 404
                   /\ foods' = foods
                   /\ notifs' = notifs]_vars

C7_Witness ==
    \E r \in Slots, i \in FoodIds :
        /\ reqs[r].pc = "done" /\ reqs[r].kind = "claim"
        /\ reqs[r].resp = Resp(400, "This food has already been claimed", NoFood)
        /\ foods[i].status = "claimed" /\ foods[i].claimedBy # Null

\* C8: a complete request by the donor on a listing that is not claimed is
\* answered 400, changes no listing and creates no notification.
C8_CompleteNotClaimedRejected ==
    [][\A r \in Slots : Received(r, "complete") =>
        \A u \in Users, i \in FoodIds :
          (CompleteLoad(r, u, i) /\ Exists(i) /\ foods[i].donor = u
                /\ foods[i].status # "claimed")
              => /\ reqs'[r].pc = "done"
                 /\ reqs'[r].resp =
                      Resp(400, "Food must be claimed before completing", NoFood)
                 /\ foods' = foods
                 /\ notifs' = notifs]_vars

C8_Witness ==
    \E r \in Slots :
        /\ reqs[r].pc = "done" /\ reqs[r].kind = "complete"
        /\ reqs[r].resp = Resp(400, "Food must be claimed before completing", NoFood)

\* C9: a complete request by a user who is not the donor is answered 403
\* whatever the status, changes no listing and creates no notification.
C9_CompleteNonDonorRejected ==
    [][\A r \in Slots : Received(r, "complete") =>
        \A u \in Users, i \in FoodIds :
          (CompleteLoad(r, u, i) /\ Exists(i) /\ foods[i].donor # u)
              => /\ reqs'[r].pc = "done"
                 /\ reqs'[r].resp.code = 403
                 /\ foods' = foods
                 /\ notifs' = notifs]_vars

\* a claimer asked for completion of the listing they claimed
C9_Witness ==
    \E r \in Slots, i \in FoodIds :
        /\ reqs[r].pc = "done" /\ reqs[r].kind = "complete"
        /\ reqs[r].resp.code = 403
        /\ foods[i].status = "claimed"

\* C10 as stated: at the moment a claim of L by B succeeds, the stored L has
\* status claimed and claimedBy B, and the store holds an unread
\* claim_request notification for L's donor about L from B.
C10_ClaimSuccessStored ==
    [][\A r \in Slots :
          (Responds(r) /\ reqs'[r].kind = "claim" /\ reqs'[r].resp.code = 200)
              => LET L == reqs[r].id
                     B == reqs[r].caller
                 IN  /\ foods'[L].status = "claimed"
                     /\ foods'[L].claimedBy = B
                     /\ \E k \in DOMAIN notifs' :
                            notifs'[k] = NewNotification(foods'[L].donor,
                                              "claim_request", L, B)]_vars

\* C10 as amended: the claim's save writes status claimed and claimedBy B to
\* the stored L; every notification is stored unread; and when the claim
\* succeeds, the response shows L claimed by B and the store holds a
\* claim_request notification for the donor the request loaded, about L,
\* from B.
C10_ClaimSuccess ==
    [][/\ \A r \in Slots :
            (reqs[r].kind = "claim" /\ reqs[r].pc = "save"
                /\ reqs'[r].pc = "notify")
              => /\ foods'[reqs[r].id].status = "claimed"
                 /\ foods'[reqs[r].id].claimedBy = reqs[r].caller
       /\ Len(notifs') > Len(notifs) => ~notifs'[Len(notifs')].read
       /\ \A r \in Slots :
            (Responds(r) /\ reqs'[r].kind = "claim" /\ reqs'[r].resp.code = 200)
              => LET L == reqs[r].id
                     B == reqs[r].caller
                     body == reqs'[r].resp.body
                 IN  /\ body.id = L
                     /\ body.status = "claimed"
                     /\ body.claimedBy = B
                     /\ \E k \in DOMAIN notifs' :
                            /\ notifs'[k].user = reqs[r].food.donor
                            /\ notifs'[k].type = "claim_request"
                            /\ notifs'[k].food = L
                            /\ notifs'[k].fromUser = B]_vars

C10_Witness == \E r \in Slots : ClaimSucceeded(r)

\* The store of InitClaimed is reached from Init.
InitClaimed_Reached ==
    /\ foods[1] = ClaimAssign(NewFood(1, 1, 0), 2)
    /\ nextId = 2
    /\ notifs = <<NewNotification(1, "claim_request", 1, 2)>>
    /\ \E r \in Slots :
          reqs[r] = [Idle EXCEPT !.pc = "done", !.kind = "claim",
                        !.resp = Resp(200, "", ClaimAssign(NewFood(1, 1, 0), 2))]
    /\ \A r \in Slots : reqs[r].pc \in {"idle", "done"}

CompleteSucceeded(r) ==
    reqs[r].pc = "done" /\ reqs[r].kind = "complete" /\ reqs[r].resp.code = 200

\* C11 (as stated): whenever a complete of a claimed listing L by its donor A
\* succeeds, the stored L has status completed and the claimer it had, and
\* the store holds a food_completed notification for L's claimer, about L,
\* from A.
C11_CompleteSuccessStored ==
    [][\A r \in Slots :
          (Responds(r) /\ reqs'[r].kind = "complete" /\ reqs'[r].resp.code = 200)
              => LET L == reqs[r].id
                     A == reqs[r].caller
                 IN  /\ foods'[L].status = "completed"
                     /\ foods'[L].claimedBy = reqs[r].food.claimedBy
                     /\ foods'[L].claimedBy # Null =>
                          \E k \in DOMAIN notifs' :
                            /\ notifs'[k].type = "food_completed"
                            /\ notifs'[k].user = foods'[L].claimedBy
                            /\ notifs'[k].food = L
                            /\ notifs'[k].fromUser = A]_vars

\* C12: the array GET /food answers with holds exactly the stored listings
\* whose status is available when the query runs, each once: no claimed,
\* completed or deleted listing is in it.
C12_ListAvailableExact ==
    [][\A r \in Slots :
          (Received(r, "list") /\ reqs'[r].resp.code = 200)
              => LET list == reqs'[r].resp.list
                 IN  /\ \A k \in DOMAIN list :
                          /\ list[k].status = "available"
                          /\ list[k].id \in FoodIds
                          /\ list[k] = foods[list[k].id]
                     /\ \A i \in FoodIds :
                          foods[i].status = "available"
                              => \E k \in DOMAIN list : list[k] = foods[i]
                     /\ \A k, l \in DOMAIN list :
                          list[k] = list[l] => k = l]_vars

\* GET /food has answered with an empty array while a claimed listing is
\* stored.
C12_Witness ==
    \E r \in Slots :
        /\ reqs[r].pc = "done" /\ reqs[r].kind = "list"
        /\ reqs[r].resp.code = 200
        /\ reqs[r].resp.list = <<>>
        /\ \E i \in FoodIds : foods[i].status = "claimed"

\* C13: right after mark-all-read of user u, u has no unread notification,
\* and marking again would change nothing; the unread count of a user leaves
\* 0 only by the creation of a notification for that user; and the
\* unreadCount GET /notifications reports is the number of the caller's
\* stored unread notifications when the count query runs.
C13_MarkAllReadZero ==
    [][/\ \A u \in Users :
            MarkAllRead(u)
              => /\ UnreadCount(u)' = 0
                 /\ [i \in DOMAIN notifs' |-> MarkRead(notifs'[i], u)] = notifs'
       /\ \A u \in Users :
            (UnreadCount(u) = 0 /\ UnreadCount(u)' # 0)
              => /\ Len(notifs') = Len(notifs) + 1
                 /\ notifs'[Len(notifs')].user = u
       /\ \A r \in Slots :
            (reqs[r].pc = "count" /\ Responds(r) /\ reqs'[r].resp.code = 200)
              => reqs'[r].resp.count =
                   Cardinality({k \in DOMAIN notifs :
                       notifs[k].user = reqs[r].caller /\ ~notifs[k].read})]_vars

\* GET /notifications of a user whose notifications were all marked read
\* has answered with a read notification and unreadCount 0.
C13_Witness ==
    \E r \in Slots :
        /\ reqs[r].pc = "done" /\ reqs[r].kind = "notifications"
        /\ reqs[r].resp.code = 200
        /\ reqs[r].resp.count = 0
        /\ Len(reqs[r].resp.list) > 0
        /\ \A k \in DOMAIN reqs[r].resp.list : reqs[r].resp.list[k].read

\* C14: a create with name and address by caller u at clock reading now
\* stores, and answers 201 with, a listing of status available, claimedBy
\* null, donor u and expiresAt = now + 24 hours; and a GET /food/:id of a
\* listing just created (no other request on it since) answers 200 with
\* exactly that listing.
C14_CreateRoundTrip ==
    [][\A r \in Slots :
        /\ Received(r, "create") =>
             \A u \in Users, now \in Times :
               CreateFood(r, u, TRUE, TRUE, now)
                 => /\ foods'[nextId] =
                          [id |-> nextId, status |-> "available", donor |-> u,
                           claimedBy |-> Null, expiresAt |-> now + 86400000]
                    /\ reqs'[r].resp.code = 201
                    /\ reqs'[r].resp.body = foods'[nextId]
        /\ Received(r, "get") =>
             \A i \in FoodIds :
               (GetFood(r, i) /\ Exists(i))
                 => /\ reqs'[r].resp.code = 200
                    /\ reqs'[r].resp.body.id = i
                    /\ reqs'[r].resp.body.status = "available"
                    /\ reqs'[r].resp.body.claimedBy = Null
                    /\ \E q \in Slots :
                          /\ reqs[q].kind = "create"
                          /\ reqs[q].resp.code = 201
                          /\ reqs[q].resp.body = reqs'[r].resp.body]_vars

\* A listing created at the latest clock reading has been read back.
C14_Witness ==
    \E r \in Slots :
        /\ reqs[r].pc = "done" /\ reqs[r].kind = "get"
        /\ reqs[r].resp.code = 200
        /\ reqs[r].resp.body.status = "available"
        /\ reqs[r].resp.body.expiresAt = MaxTime + 86400000

\* Listing i was stored once and is stored no more.
Deleted(i) == i \in Issued /\ foods[i] = NoFood

\* C15: a delete answered 200 leaves no document under the id; a deleted
\* listing is never stored again, whatever runs later (claims, completes and
\* updates that loaded it before the delete included); GET /food/:id of a
\* deleted listing answers 404; and no entry of a GET /food array is a
\* deleted listing.
C15_DeletedStaysDeleted ==
    [][/\ \A i \in FoodIds : Deleted(i) => foods'[i] = NoFood
       /\ \A r \in Slots :
            /\ (reqs[r].kind = "delete" /\ Responds(r)
                    /\ reqs'[r].resp.code = 200)
                 => foods'[reqs[r].id] = NoFood
            /\ Received(r, "get") =>
                 \A i \in FoodIds :
                   (GetFood(r, i) /\ Deleted(i))
                     => /\ reqs'[r].resp.code = 404
                        /\ reqs'[r].resp.body = NoFood
            /\ Received(r, "list") =>
                 \A k \in DOMAIN reqs'[r].resp.list :
                   ~Deleted(reqs'[r].resp.list[k].id)]_vars

\* A delete has been answered 200 while a claim that loaded the listing
\* before is still suspended in its save.
C15_Witness ==
    \E r, q \in Slots :
        /\ reqs[q].pc = "done" /\ reqs[q].kind = "delete"
        /\ reqs[q].resp.code = 200
        /\ reqs[r].kind = "claim" /\ reqs[r].pc = "save"
        /\ Deleted(reqs[r].id)

\* C16: an update or delete request by a caller who is not the donor of the
\* stored listing is answered 403, and one on an id with no stored listing
\* is answered 404; either way the request ends there and no listing (and no
\* notification) changes.  (The checks come before the handler reads the
\* body, so a rejected update is the same step whatever its body: the empty
\* body stands for all.)
C16_NonDonorOrAbsentRejected ==
    [][\A r \in Slots :
        /\ Received(r, "update") =>
             \A u \in Users, i \in FoodIds :
               ((~Exists(i) \/ foods[i].donor # u) /\ UpdateLoad(r, u, i, KeepAll))
                 => /\ reqs'[r].pc = "done"
                    /\ reqs'[r].resp.code = IF Exists(i) THEN 403 ELSE 404
                    /\ foods' = foods
                    /\ notifs' = notifs
        /\ Received(r, "delete") =>
             \A u \in Users, i \in FoodIds :
               ((~Exists(i) \/ foods[i].donor # u) /\ DeleteLoad(r, u, i))
                 => /\ reqs'[r].pc = "done"
                    /\ reqs'[r].resp.code = IF Exists(i) THEN 403 ELSE 404
                    /\ foods' = foods
                    /\ notifs' = notifs]_vars

\* An update and a delete have both been answered 403 and the listing is
\* stored as it was created.
C16_Witness ==
    \E r, q, c \in Slots :
        /\ reqs[r].pc = "done" /\ reqs[r].kind = "update"
        /\ reqs[r].resp.code = 403
        /\ reqs[q].pc = "done" /\ reqs[q].kind = "delete"
        /\ reqs[q].resp.code = 403
        /\ reqs[c].kind = "create" /\ reqs[c].resp.code = 201
        /\ foods[reqs[c].resp.body.id] = reqs[c].resp.body

\* C17: a stored listing whose status is claimed or completed is not
\* removed by any step: a delete removes a listing only while its status is
\* available.
C17_NoDeleteOnceClaimed ==
    [][\A i \in FoodIds :
          (Exists(i) /\ foods[i].status \in {"claimed", "completed"})
              => foods'[i] # NoFood]_vars

\* The stored notifications that this step changes.
Changed == {k \in DOMAIN notifs : k \in DOMAIN notifs' /\ notifs'[k] # notifs[k]}

\* C18: in every step the notifications stored before stay stored, in
\* place; at most one is added, and then by the notify step of a claim (type
\* claim_request) or of a complete (type food_completed), unread, about that
\* request's listing and from its caller; a stored notification changes
\* only by read going from false to true, and then in a mark-all-read of its
\* recipient (which no other notification's recipient shares).
C18_NotificationLifecycle ==
    [][/\ Len(notifs') \in {Len(notifs), Len(notifs) + 1}
       /\ \A k \in Changed :
            /\ ~notifs[k].read
            /\ notifs'[k] = [notifs[k] EXCEPT !.read = TRUE]
       /\ Changed # {} =>
            /\ Len(notifs') = Len(notifs)
            /\ \E u \in Users :
                  /\ MarkAllRead(u)
                  /\ \A k \in Changed : notifs[k].user = u
       /\ Len(notifs') = Len(notifs) + 1 =>
            LET new == notifs'[Len(notifs')]
            IN  \E r \in Slots :
                  /\ reqs[r].pc = "notify" /\ reqs'[r].pc # "notify"
                  /\ \/ reqs[r].kind = "claim" /\ new.type = "claim_request"
                     \/ reqs[r].kind = "complete" /\ new.type = "food_completed"
                  /\ ~new.read
                  /\ new.food = reqs[r].id
                  /\ new.fromUser = reqs[r].caller]_vars

\* Both kinds of notification are stored, for different users, one of them
\* read and the other not.
C18_Witness ==
    \E k, l \in DOMAIN notifs :
        /\ notifs[k].type = "claim_request" /\ notifs[k].read
        /\ notifs[l].type = "food_completed" /\ ~notifs[l].read
        /\ notifs[k].user # notifs[l].user

\* C19: a claim or complete whose listing write and notification write have
\* succeeded, and which is preparing its realtime push (the enrichment of
\* the notification payload), is answered 200 whatever becomes of the push.
C19_PushNeverFailsRequest ==
    [][\A r \in Slots :
          (reqs[r].kind \in {"claim", "complete"} /\ reqs[r].pc = "emit"
              /\ Responds(r))
            => reqs'[r].resp.code = 200]_vars

\* C20: every connection is in the channel of at most one user.
C20_OneChannel ==
    \A c \in Conns : \A u, v \in Users :
        (c \in Channel(u) /\ c \in Channel(v)) => u = v

\* The step in which claim request r emits its event (the handler goes on to
\* its response whoever is listening), and the one in which complete request
\* r does.
ClaimPushes(r) ==
    /\ reqs[r].kind = "claim" /\ reqs[r].pc = "emit"
    /\ reqs'[r].pc = "respond"

CompletePushes(r) ==
    /\ reqs[r].kind = "complete" /\ reqs[r].pc = "notify"
    /\ reqs'[r].pc = "done" /\ reqs'[r].resp.code = 200

\* What a connection is after an event for user u was pushed: the event is
\* added if the connection was in u's room when the push happened.
AfterPush(c, u, ev) ==
    IF u \in sockets[c].rooms
    THEN [sockets[c] EXCEPT !.inbox = @ \cup {ev}]
    ELSE sockets[c]

\* C21: a push to user u delivers the event to exactly the connections that
\* are in u's channel at the moment of the push, and the request goes on
\* whether or not there is any; a connection receives a notification event
\* only in the step that pushes it and only if it was in the channel then,
\* so one that joins later never receives it; a connection that has
\* disconnected is in no channel.
C21_PushReachesMembersAtPush ==
    [][ /\ \A r \in Slots : ClaimPushes(r) =>
              \A c \in Conns :
                  sockets'[c] =
                      AfterPush(c, reqs[r].food.donor,
                                NotificationEvent(ClaimNotification(reqs[r])))
        /\ \A r \in Slots : CompletePushes(r) =>
              \A c \in Conns :
                  sockets'[c] =
                      AfterPush(c, reqs[r].food.claimedBy,
                                NotificationEvent(CompleteNotification(reqs[r])))
        /\ \A c \in Conns :
              \A e \in sockets'[c].inbox \ sockets[c].inbox :
                  e.event = "notification" =>
                      /\ e.user \in sockets[c].rooms
                      /\ \E r \in Slots : ClaimPushes(r) \/ CompletePushes(r)
        /\ \A c \in Conns :
              ~sockets'[c].live =>
                  sockets'[c].rooms = {} /\ sockets'[c].inbox = {}
      ]_vars

\* One connection has received a notification event; another, which joined
\* the same channel after the push, has not.
C21_Witness ==
    \E c, d \in Conns : \E e \in sockets[c].inbox :
        /\ e.event = "notification"
        /\ sockets[d].live /\ e.user \in sockets[d].rooms
        /\ e \notin sockets[d].inbox

\* The food_shared events that reach some connection in this step.
NewlyShared ==
    UNION {{e \in sockets'[c].inbox \ sockets[c].inbox : e.event = "food_shared"}
           : c \in Conns}

\* C22: a create answered 201 stores the listing and hands one food_shared
\* event, of that listing, to every connection live at that moment, joined
\* to a channel or not, and to no other; a create answered 400 stores
\* nothing and emits nothing; no other step delivers a food_shared event.
C22_CreateBroadcasts ==
    [][ /\ \A r \in Slots : Received(r, "create") =>
              LET resp == reqs'[r].resp
              IN  /\ resp.code = 201 =>
                        /\ foods' = [foods EXCEPT ![nextId] = resp.body]
                        /\ resp.body.id = nextId
                        /\ \A c \in Conns :
                              sockets'[c] =
                                  IF sockets[c].live
                                  THEN [sockets[c] EXCEPT !.inbox =
                                            @ \cup {FoodSharedEvent(resp.body)}]
                                  ELSE sockets[c]
                        /\ NewlyShared \subseteq {FoodSharedEvent(resp.body)}
                  /\ resp.code = 400 =>
                        /\ foods' = foods /\ nextId' = nextId
                        /\ sockets' = sockets
        /\ NewlyShared # {} =>
              \E r \in Slots : Received(r, "create") /\ reqs'[r].resp.code = 201
      ]_vars

\* A connection that has joined no channel has received the event of a
\* stored listing, and a create has been answered 400.
C22_Witness ==
    /\ \E c \in Conns : \E e \in sockets[c].inbox :
          /\ sockets[c].rooms = {} /\ e.event = "food_shared"
          /\ Exists(e.food)
    /\ \E r \in Slots :
          reqs[r].pc = "done" /\ reqs[r].kind = "create" /\ reqs[r].resp.code = 400

\* C23: a realtime notification event for user u is delivered only to
\* connections of a client logged in as u.  (The other parts of the claim,
\* on the notification list, the unread count and mark-all-read, are not
\* what fails.)
C23_EventsReachOwnerOnly ==
    \A c \in Conns : \A e \in sockets[c].inbox :
        e.event = "notification" => sockets[c].user = e.user

\* The notification of claim request r is in the store.
ClaimNotificationStored(r) ==
    \E k \in DOMAIN notifs :
        NotificationEvent(notifs[k]) =
            NotificationEvent(ClaimNotification(reqs[r]))

\* C24: a claim request goes through its steps in the order save (status
\* claimed and the claimer written), notification stored, push to the
\* donor's channel, response; a claim_request notification is stored only by
\* a request whose save has been applied, so the listing it names has been
\* written claimed; a notification event reaches a connection only in the
\* push step of a request whose notification is already stored.
C24_ClaimStepOrder ==
    [][ /\ \A r \in Slots :
              (reqs[r].kind = "claim" /\ reqs'[r] # reqs[r]) =>
                  \/ /\ reqs[r].pc = "save" /\ reqs'[r].pc = "notify"
                     /\ foods'[reqs[r].id].status = "claimed"
                     /\ foods'[reqs[r].id].claimedBy = reqs[r].caller
                     /\ notifs' = notifs /\ sockets' = sockets
                  \/ /\ reqs[r].pc = "notify" /\ reqs'[r].pc = "emit"
                     /\ notifs' = Append(notifs, ClaimNotification(reqs[r]))
                     /\ foods' = foods /\ sockets' = sockets
                  \/ /\ reqs[r].pc = "emit" /\ reqs'[r].pc = "respond"
                     /\ ClaimNotificationStored(r)
                     /\ foods' = foods /\ notifs' = notifs
                  \/ /\ reqs[r].pc = "respond" /\ reqs'[r].pc = "done"
                     /\ reqs'[r].resp.code = 200
                     /\ foods' = foods /\ notifs' = notifs /\ sockets' = sockets
        /\ \A k \in DOMAIN notifs' :
              notifs'[k].type = "claim_request" =>
                  /\ foods'[notifs'[k].food].status \in {"claimed", "completed"}
                  /\ \/ k \in DOMAIN notifs
                     \/ \E r \in Slots :
                           /\ reqs[r].kind = "claim" /\ reqs[r].pc = "notify"
                           /\ reqs[r].id = notifs'[k].food
        /\ \A c \in Conns :
              \A e \in sockets'[c].inbox \ sockets[c].inbox :
                  e.type = "claim_request" =>
                      \E r \in Slots :
                          /\ ClaimPushes(r) /\ ClaimNotificationStored(r)
                          /\ e = NotificationEvent(ClaimNotification(reqs[r]))
      ]_vars

\* A claim request has pushed and not yet answered: the listing is stored
\* claimed by its caller, its notification is stored and has reached a
\* connection of the donor's channel.
C24_Witness ==
    \E r \in Slots :
        /\ reqs[r].kind = "claim" /\ reqs[r].pc = "respond"
        /\ foods[reqs[r].id].status = "claimed"
        /\ foods[reqs[r].id].claimedBy = reqs[r].caller
        /\ ClaimNotificationStored(r)
        /\ \E c \in Conns :
              NotificationEvent(ClaimNotification(reqs[r])) \in sockets[c].inbox

\* C25: once a listing's claimer is set it keeps that value as long as the
\* listing exists: no step replaces it by another user or resets it.
C25_ClaimerKept ==
    [][ \A i \in FoodIds :
            (Exists(i) /\ foods[i].claimedBy # Null /\ foods'[i] # NoFood) =>
                foods'[i].claimedBy = foods[i].claimedBy ]_vars

\* The claim_request notifications stored for listing i.
ClaimRequestsOf(i) ==
    {k \in DOMAIN notifs :
        notifs[k].type = "claim_request" /\ notifs[k].food = i}

\* C26: every listing has at most one claim_request notification, and the
\* actor of that notification is the listing's stored claimer.
C26_OneClaimRequest ==
    \A i \in FoodIds :
        Exists(i) =>
            /\ Cardinality(ClaimRequestsOf(i)) <= 1
            /\ \A k \in ClaimRequestsOf(i) :
                  notifs[k].fromUser = foods[i].claimedBy

\* C27: every listing has at most one food_completed notification, and at
\* most one complete request of a listing is answered with success.
C27_OneCompletion ==
    \A i \in FoodIds :
        /\ Cardinality({k \in DOMAIN notifs :
               notifs[k].type = "food_completed" /\ notifs[k].food = i}) <= 1
        /\ Cardinality({r \in Slots :
               CompleteSucceeded(r) /\ reqs[r].resp.body.id = i}) <= 1

\* The status a handler in flight found when it loaded its listing.
LoadedStatus(req) == IF req.kind = "claim" THEN "available" ELSE "claimed"

\* C28: a claim or complete request that is answered with an error leaves
\* the listing's status as the request found it and stores no notification:
\* rejected on arrival it changes nothing, and failing at a later step it
\* has written nothing.
C28_ErrorLeavesNoTrace ==
    [][ \A r \in Slots :
            /\ ( /\ (Received(r, "claim") \/ Received(r, "complete"))
                 /\ reqs'[r].pc = "done" /\ reqs'[r].resp.code # 200 ) =>
                   (foods' = foods /\ notifs' = notifs)
            /\ ( /\ reqs[r].pc \in InFlight
                 /\ reqs[r].kind \in {"claim", "complete"}
                 /\ Responds(r) /\ reqs'[r].resp.code # 200 ) =>
                   /\ Exists(reqs[r].id) =>
                         foods'[reqs[r].id].status = LoadedStatus(reqs[r])
                   /\ \A k \in DOMAIN notifs' :
                         ~ ( /\ notifs'[k].food = reqs[r].id
                             /\ notifs'[k].fromUser = reqs[r].caller
                             /\ notifs'[k].type =
                                   IF reqs[r].kind = "claim"
                                   THEN "claim_request" ELSE "food_completed" )
      ]_vars

\* C29: every response of GET /users/stats is consistent: totalCompleted is
\* the sum of the two completed counts, completedDonations is at most
\* foodShared and completedPickups at most foodClaimed.
C29_StatsConsistent ==
    \A r \in Slots :
        (reqs[r].pc = "done" /\ reqs[r].kind = "stats" /\ reqs[r].resp.code = 200)
            => LET stats == reqs[r].resp.stats
               IN  /\ stats.totalCompleted =
                          stats.completedDonations + stats.completedPickups
                   /\ stats.completedDonations <= stats.foodShared
                   /\ stats.completedPickups <= stats.foodClaimed

\* C30: in the browser client there is at most one socket, it exists only
\* while a user is logged in, and it is joined to no channel but that of
\* the user currently logged in.
C30_SocketFollowsLogin ==
    /\ Cardinality({c \in Conns : sockets[c].live}) <= 1
    /\ \A c \in Conns : sockets[c].live => c = client.socket
    /\ client.socket # 0 => client.currentUser # Null
    /\ \A c \in Conns : sockets[c].rooms \subseteq {client.currentUser}

====
